---- MODULE Spec2Model ----
(***************************************************************************)
(* Model of src/src/lib.rs: CsvReader (header acquisition + header-indexer *)
(* construction), CsvReader::with_parser and the CsvRowReader iterator,    *)
(* together with the HeaderIndexer / Parser pair of the test module.       *)
(*                                                                         *)
(* Text is modelled as sequences of one-character strings, so that         *)
(* trimming and number parsing are computed, not assumed.  The csv crate   *)
(* is modelled at the level the code uses it: a cursor over raw records,   *)
(* configured by the ReaderBuilder calls of the two constructors.          *)
(***************************************************************************)
EXTENDS Integers, Sequences, FiniteSets, TLC

\* ------------------------------------------------------------------ bounds
MaxRows == 3
MaxPulls == 4
MaxStreams == 2
\* pulls allowed on the input of the test module (5 rows and the end)
MaxPullsE2E == 6

\* ------------------------------------------------- Option / Result values
None == [tag |-> "None"]
Some(v) == [tag |-> "Some", val |-> v]
Ok(v) == [tag |-> "Ok", val |-> v]
Err(e) == [tag |-> "Err", err |-> e]

\* --------------------------------------------------------------- text
Digits == {"0", "1", "2", "3", "4", "5", "6", "7", "8", "9"}

DigitVal(c) ==
  CASE c = "0" -> 0 [] c = "1" -> 1 [] c = "2" -> 2 [] c = "3" -> 3
    [] c = "4" -> 4 [] c = "5" -> 5 [] c = "6" -> 6 [] c = "7" -> 7
    [] c = "8" -> 8 [] c = "9" -> 9

IsWhitespace(c) == c \in {" ", "\t"}

RECURSIVE TrimStart(_)
TrimStart(s) ==
  IF s # <<>> /\ IsWhitespace(Head(s)) THEN TrimStart(Tail(s)) ELSE s

RECURSIVE TrimEnd(_)
TrimEnd(s) ==
  IF s # <<>> /\ IsWhitespace(s[Len(s)])
  THEN TrimEnd(SubSeq(s, 1, Len(s) - 1))
  ELSE s

\* a variant for a reader built without trim(Trim::All)
NoTrim(s) == s

\* Trim::All applied to one field
TrimField(s) == TrimEnd(TrimStart(s))

\* Trim::All applied to every field of a record
TrimAll(fields) == [i \in 1..Len(fields) |-> TrimField(fields[i])]

AllDigits(s) == \A i \in 1..Len(s) : s[i] \in Digits

RECURSIVE DigitsValue(_)
DigitsValue(s) ==
  IF s = <<>> THEN 0
  ELSE 10 * DigitsValue(SubSeq(s, 1, Len(s) - 1)) + DigitVal(s[Len(s)])

HasSign(s) == s # <<>> /\ Head(s) \in {"+", "-"}
Unsigned(s) == IF HasSign(s) THEN Tail(s) ELSE s
SignOf(s) == IF s # <<>> /\ Head(s) = "-" THEN -1 ELSE 1

\* str::parse::<i64>: optional sign, at least one digit, digits only.
\* (Field texts of the model are far shorter than 19 digits, so the i64
\* range is never left.)
ParseI64(s) ==
  LET u == Unsigned(s) IN
  IF u # <<>> /\ AllDigits(u)
  THEN Ok(SignOf(s) * DigitsValue(u))
  ELSE Err("ParseIntError")

DotPositions(s) == {i \in 1..Len(s) : s[i] = "."}

RECURSIVE Normalize(_, _)
Normalize(mant, scale) ==
  IF scale > 0 /\ mant % 10 = 0
  THEN Normalize(mant \div 10, scale - 1)
  ELSE [mant |-> mant, scale |-> scale]

\* str::parse::<f64> restricted to decimal literals without exponent:
\* optional sign, digits with at most one '.', at least one digit.
\* The value mant / 10^scale is kept normalised, so "1", "1.0" and "1."
\* denote the same value.
ParseF64(s) ==
  LET u == Unsigned(s)
      dots == DotPositions(u)
  IN
  IF Cardinality(dots) > 1 THEN Err("ParseFloatError")
  ELSE
    LET d == IF dots = {} THEN Len(u) + 1 ELSE CHOOSE i \in dots : TRUE
        int == SubSeq(u, 1, d - 1)
        frac == SubSeq(u, d + 1, Len(u))
    IN
    IF AllDigits(int) /\ AllDigits(frac) /\ Len(int) + Len(frac) > 0
    THEN LET n == Normalize(DigitsValue(int \o frac), Len(frac))
         IN Ok([mant |-> SignOf(s) * n.mant, scale |-> n.scale])
    ELSE Err("ParseFloatError")

\* -------------------------------------------- tests::HeaderIndexer::new
Matches(columns, name) == {i \in 1..Len(columns) : columns[i] = name}

\* Iterator::position (0-based index of the first match)
Position(columns, name) ==
  LET m == Matches(columns, name) IN
  IF m = {} THEN None
  ELSE Some((CHOOSE i \in m : \A j \in m : i <= j) - 1)

\* Iterator::rposition (0-based index of the last match)
RPosition(columns, name) ==
  LET m == Matches(columns, name) IN
  IF m = {} THEN None
  ELSE Some((CHOOSE i \in m : \A j \in m : i >= j) - 1)

HeaderIndexerNew(columns) ==
  LET x_idx == Position(columns, <<"X">>)
      y_idx == Position(columns, <<"Y">>)
  IN
  IF x_idx # RPosition(columns, <<"X">>) THEN Err("DuplicatedX")
  ELSE IF x_idx = None THEN Err("NoX")
  ELSE IF y_idx # RPosition(columns, <<"Y">>) THEN Err("DuplicatedY")
  ELSE IF y_idx = None THEN Err("NoY")
  ELSE Ok([x_idx |-> x_idx.val, y_idx |-> y_idx.val])

\* ------------------------------------------------ tests::Parser::parse_row
\* StringRecord::get (0-based)
Get(row, idx) == IF idx < Len(row) THEN Some(row[idx + 1]) ELSE None

ParseRow(header_indexer, row) ==
  LET x == Get(row, header_indexer.x_idx)
      y == Get(row, header_indexer.y_idx)
  IN
  IF x = None THEN Err("NoXAtPosition")
  ELSE IF y = None THEN Err("NoYAtPosition")
  ELSE
    LET px == ParseF64(x.val)
        py == ParseI64(y.val)
    IN
    IF px.tag = "Err" THEN Err(px.err)
    ELSE IF py.tag = "Err" THEN Err(py.err)
    ELSE Ok([x |-> px.val, y |-> py.val])

\* ------------------------------------------------------------ the source
\* The bytes behind the reader, cut into raw records (lines): the untrimmed
\* field texts and whether the bytes of the line are valid UTF-8.
Rec(fields) == [utf8 |-> TRUE, fields |-> fields]
BadUtf8(fields) == [utf8 |-> FALSE, fields |-> fields]

\* "X,Z, Y": the header of the test module
HdrXZY == Rec(<< <<"X">>, <<"Z">>, <<" ", "Y">> >>)
\* "X,X,Y"
HdrXXY == Rec(<< <<"X">>, <<"X">>, <<"Y">> >>)
\* "X,Z"
HdrXZ == Rec(<< <<"X">>, <<"Z">> >>)
\* a header line that is not valid UTF-8
HdrBad == BadUtf8(<< <<"X">>, <<"Z">>, <<"Y">> >>)
\* "#c"
LineComment == Rec(<< <<"#", "c">> >>)
\* " 10.2,23.3,11" (the data lines of the test module are indented)
Row1 ==
  Rec(<< <<" ", "1", "0", ".", "2">>, <<"2", "3", ".", "3">>, <<"1", "1">> >>)
\* " 1,0,12.9"
Row2 == Rec(<< <<" ", "1">>, <<"0">>, <<"1", "2", ".", "9">> >>)
\* a three-field line that is not valid UTF-8
RowBad == BadUtf8(<< <<"1">>, <<"0">>, <<"2">> >>)

\* the indentation of the data lines of tests::CSV_FILE (11 spaces)
Indent == <<" ", " ", " ", " ", " ", " ", " ", " ", " ", " ", " ">>

\* tests::CSV_FILE, line by line
CSV_FILE ==
  << HdrXZY,
     Rec(<< Indent \o <<"1", "0", ".", "2">>, <<"2", "3", ".", "3">>, <<"1", "1">> >>),
     Rec(<< Indent \o <<"1">>, <<"0">>, <<"1", "2", ".", "9">> >>),
     Rec(<< Indent, <<>>, <<"1">> >>),
     Rec(<< Indent \o <<"0">>, <<"8">>, <<"9">> >>),
     Rec(<< Indent \o <<"1">>, <<>>, <<"2">> >>) >>

FirstLines == {HdrXZY, HdrXXY, HdrXZ, HdrBad, LineComment}
RowLines == {Row1, Row2, RowBad, LineComment}

RECURSIVE SeqsUpTo(_, _)
SeqsUpTo(S, n) ==
  IF n = 0 THEN {<<>>}
  ELSE LET shorter == SeqsUpTo(S, n - 1)
       IN shorter \cup {Append(s, x) : s \in {t \in shorter : Len(t) = n - 1}, x \in S}

Sources ==
  {<<>>} \cup {<<h>> \o rows : h \in FirstLines, rows \in SeqsUpTo(RowLines, MaxRows)}

\* --------------------------------------------------------- csv::Reader
\* ReaderBuilder: has_headers(true), trim(Trim::All), flexible left at its
\* default (false); comment(b'#') only where the constructor sets it.
\* a variant that sets comment(b'#') whatever the constructor
NewReaderCommentAlways(comment) ==
  [has_headers |-> TRUE, comment |-> TRUE, pos |-> 0, first_field_count |-> None]

\* a variant built with has_headers(false)
NewReaderNoHeaders(comment) ==
  [has_headers |-> FALSE, comment |-> comment, pos |-> 0, first_field_count |-> None]

NewReader(comment) ==
  [has_headers |-> TRUE, comment |-> comment, pos |-> 0, first_field_count |-> None]

IsComment(rec) ==
  rec.fields # <<>> /\ rec.fields[1] # <<>> /\ rec.fields[1][1] = "#"

\* index of the last raw record passed over when comment lines are skipped
RECURSIVE SkipComments(_, _, _)
SkipComments(src, pos, comment) ==
  IF comment /\ pos < Len(src) /\ IsComment(src[pos + 1])
  THEN SkipComments(src, pos + 1, comment)
  ELSE pos

\* One record read: [rdr |-> the reader afterwards, res |-> None at the end
\* of the input, Some(Ok(trimmed fields)) or Some(Err(diagnostic))].
\* The record is consumed in all three non-final outcomes.
ReadRecord(src, rdr) ==
  LET p == SkipComments(src, rdr.pos, rdr.comment) IN
  IF p >= Len(src)
  THEN [rdr |-> [rdr EXCEPT !.pos = Len(src)], res |-> None]
  ELSE
    LET rec == src[p + 1]
        n == Len(rec.fields)
        first == rdr.first_field_count
        after == [rdr EXCEPT !.pos = p + 1,
                             !.first_field_count =
                               IF first = None THEN Some(n) ELSE first]
    IN
    [rdr |-> after,
     res |-> IF first # None /\ first.val # n THEN Some(Err("UnequalLengths"))
             ELSE IF ~rec.utf8 THEN Some(Err("Utf8"))
             ELSE Some(Ok(TrimAll(rec.fields)))]

\* Reader::headers: the first record; an empty input has an empty header.
\* With has_headers the record is consumed; without, records() yields it
\* again as the first row.
Headers(src, rdr) ==
  LET r == ReadRecord(src, rdr) IN
  [rdr |-> IF rdr.has_headers THEN r.rdr ELSE [r.rdr EXCEPT !.pos = rdr.pos],
   res |-> IF r.res = None THEN Ok(<<>>) ELSE r.res.val]

\* ------------------------------------------------------------- state
VARIABLES
  source,          \* the raw records behind the reader (never changes)
  reader,          \* CsvReader.reader: the tokenizer state, None if no instance
  header_indexer,  \* CsvReader.header_indexer, None if no instance
  created,         \* what the constructor returned, None before the call
  dropped,         \* the CsvReader instance has been dropped
  live,            \* the CsvRowReader values alive (stream ids)
  nstreams,        \* number of with_parser calls so far
  log              \* history of calls, in order

vars == <<source, reader, header_indexer, created, dropped, live, nstreams, log>>

\* ------------------------------------------------------------ history
EvCall(name) == [op |-> name]
EvHeaders(res) == [op |-> "headers", res |-> res]
EvBuilder(arg, res) == [op |-> "builder", arg |-> arg, res |-> res]
EvWithParser(s) == [op |-> "with_parser", stream |-> s]
EvRead(from, to, res) == [op |-> "read", from |-> from, to |-> to, res |-> res]
EvParseRow(s, hi, row, res) ==
  [op |-> "parse_row", stream |-> s, header_indexer |-> hi, row |-> row, res |-> res]
EvNext(s, res) == [op |-> "next", stream |-> s, res |-> res]

\* CsvReaderCreationError
CsvError(err) == [kind |-> "CsvError", err |-> err]
HeaderIndexerBuilderError(e) == [kind |-> "HeaderIndexerBuilderError", err |-> e]
\* CsvRowReaderError
CsvRecordError(err) == [kind |-> "CsvRecordError", err |-> err]
RowParserError(e) == [kind |-> "RowParserError", err |-> e]

Init ==
  /\ source \in Sources
  /\ reader = None
  /\ header_indexer = None
  /\ created = None
  /\ dropped = FALSE
  /\ live = {}
  /\ nstreams = 0
  /\ log = <<>>

\* ------------------------------------------------------- construction
\* The constructor returns Err(e): the local csv::Reader is dropped and no
\* CsvReader value is built.
Fail(e, events) ==
  /\ created' = Err(e)
  /\ log' = log \o events
  /\ UNCHANGED <<reader, header_indexer>>

\* a variant that builds the instance although the builder rejected the header
AfterBuilderLenient(call, h, b) ==
  /\ created' = Ok("CsvReader")
  /\ reader' = h.rdr
  /\ header_indexer' = IF b.tag = "Ok" THEN b.val ELSE [x_idx |-> 0, y_idx |-> 0]
  /\ log' = log \o <<call, EvHeaders(h.res), EvBuilder(h.res.val, b)>>

\* header_indexer_builder(headers).map_err(HeaderIndexerBuilderError)?;
\* Ok(Self { reader, header_indexer })
AfterBuilder(call, h, b) ==
  IF b.tag = "Err"
  THEN Fail(HeaderIndexerBuilderError(b.err),
            <<call, EvHeaders(h.res), EvBuilder(h.res.val, b)>>)
  ELSE /\ created' = Ok("CsvReader")
       /\ reader' = h.rdr
       /\ header_indexer' = b.val
       /\ log' = log \o <<call, EvHeaders(h.res), EvBuilder(h.res.val, b)>>

\* a variant that goes on with an empty header when headers() failed
AfterHeadersUnchecked(call, h) ==
  LET cols == IF h.res.tag = "Err" THEN <<>> ELSE h.res.val
      b == HeaderIndexerNew(cols)
  IN
  IF b.tag = "Err"
  THEN Fail(HeaderIndexerBuilderError(b.err),
            <<call, EvHeaders(h.res), EvBuilder(cols, b)>>)
  ELSE /\ created' = Ok("CsvReader")
       /\ reader' = h.rdr
       /\ header_indexer' = b.val
       /\ log' = log \o <<call, EvHeaders(h.res), EvBuilder(cols, b)>>

\* a variant that builds the instance without consulting the builder
AfterHeadersNoBuilder(call, h) ==
  IF h.res.tag = "Err"
  THEN Fail(CsvError(h.res.err), <<call, EvHeaders(h.res)>>)
  ELSE /\ created' = Ok("CsvReader")
       /\ reader' = h.rdr
       /\ header_indexer' = [x_idx |-> 0, y_idx |-> 1]
       /\ log' = log \o <<call, EvHeaders(h.res)>>

\* reader.headers().map_err(CsvError)?, then the builder on the header row
AfterHeaders(call, h) ==
  IF h.res.tag = "Err"
  THEN Fail(CsvError(h.res.err), <<call, EvHeaders(h.res)>>)
  ELSE AfterBuilder(call, h, HeaderIndexerNew(h.res.val))

\* the body shared by both constructors once the csv::Reader `rdr` exists
Construct(call, rdr) == AfterHeaders(call, Headers(source, rdr))

new_from_path ==
  /\ created = None
  /\ \E opened \in BOOLEAN :
       IF opened
       THEN Construct(EvCall("new_from_path"), NewReader(TRUE))
       ELSE Fail(CsvError("Io"), <<EvCall("new_from_path")>>)
  /\ UNCHANGED <<source, dropped, live, nstreams>>

new_from_reader ==
  /\ created = None
  /\ Construct(EvCall("new_from_reader"), NewReader(FALSE))
  /\ UNCHANGED <<source, dropped, live, nstreams>>

\* a CsvReader value exists
Exists == created # None /\ created.tag = "Ok" /\ ~dropped

\* ------------------------------------------------------- with_parser
\* a variant whose result does not keep `self` borrowed
with_parser_shared ==
  /\ Exists
  /\ nstreams < MaxStreams
  /\ nstreams' = nstreams + 1
  /\ live' = live \cup {nstreams + 1}
  /\ log' = Append(log, EvWithParser(nstreams + 1))
  /\ UNCHANGED <<source, reader, header_indexer, created, dropped>>

\* a variant that re-initialises the header indexer for every stream
with_parser_rebuild ==
  /\ Exists
  /\ live = {}
  /\ nstreams < MaxStreams
  /\ nstreams' = nstreams + 1
  /\ live' = live \cup {nstreams + 1}
  /\ header_indexer' = [x_idx |-> 0, y_idx |-> 1]
  /\ log' = Append(log, EvWithParser(nstreams + 1))
  /\ UNCHANGED <<source, reader, created, dropped>>

\* a variant whose stream starts again at the first data row
with_parser_restart ==
  /\ Exists
  /\ live = {}
  /\ nstreams < MaxStreams
  /\ nstreams' = nstreams + 1
  /\ live' = live \cup {nstreams + 1}
  /\ reader' = [reader EXCEPT !.pos = SkipComments(source, 0, reader.comment) + 1]
  /\ log' = Append(log, EvWithParser(nstreams + 1))
  /\ UNCHANGED <<source, header_indexer, created, dropped>>

\* a variant that fetches the first record while binding
with_parser_prefetch ==
  /\ Exists
  /\ live = {}
  /\ nstreams < MaxStreams
  /\ nstreams' = nstreams + 1
  /\ live' = live \cup {nstreams + 1}
  /\ reader' = ReadRecord(source, reader).rdr
  /\ log' = Append(log, EvWithParser(nstreams + 1))
  /\ UNCHANGED <<source, header_indexer, created, dropped>>

\* with_parser(&mut self, ..): the returned CsvRowReader keeps the exclusive
\* borrow of self, so the call is only possible when no earlier one is alive.
with_parser ==
  /\ Exists
  /\ live = {}
  /\ nstreams < MaxStreams
  /\ nstreams' = nstreams + 1
  /\ live' = live \cup {nstreams + 1}
  /\ log' = Append(log, EvWithParser(nstreams + 1))
  /\ UNCHANGED <<source, reader, header_indexer, created, dropped>>

\* ------------------------------------------------------------- next
NextCalls == {i \in 1..Len(log) : log[i].op = "next"}

\* a variant that ends the iteration at a record error
OnRecordErrorStop(err) == None

\* Err(err) => return Some(Err(CsvRowReaderError::CsvRecordError(err)))
OnRecordError(err) == Some(Err(CsvRecordError(err)))

\* a variant that loses the decoder's error value
MapErrLossy(p) ==
  IF p.tag = "Err" THEN Err(RowParserError("Unknown")) ELSE p

\* .map_err(CsvRowReaderError::RowParserError)
MapErr(p) == IF p.tag = "Err" THEN Err(RowParserError(p.err)) ELSE p

\* a variant that reports the end of input as an error
OnEndError == Some(Err(CsvRecordError("Eof")))

\* row_reader.next()? at the end of input: next returns None
OnEnd == None

\* a variant that rewinds the reader when the input is exhausted
AtEndRewind(rdr) == [rdr EXCEPT !.pos = 0]

\* the reader after row_reader.next() returned None: it stays at the end
AtEnd(rdr) == rdr

\* a variant that calls parse_row a second time when it failed
NextWithRetry(s, r) ==
  LET read == EvRead(reader.pos, r.rdr.pos, r.res) IN
  IF r.res = None
  THEN /\ reader' = AtEnd(r.rdr)
       /\ log' = log \o <<read, EvNext(s, OnEnd)>>
  ELSE
    /\ reader' = r.rdr
    /\ IF r.res.val.tag = "Err"
       THEN log' = log \o <<read, EvNext(s, OnRecordError(r.res.val.err))>>
       ELSE
         LET row == r.res.val.val
             p == ParseRow(header_indexer, row)
             call == EvParseRow(s, header_indexer, row, p)
         IN log' = log \o
              (IF p.tag = "Err" THEN <<read, call, call>> ELSE <<read, call>>)
              \o <<EvNext(s, Some(MapErr(p)))>>

\* the body of next, given the outcome r of row_reader.next()
NextWith(s, r) ==
  LET read == EvRead(reader.pos, r.rdr.pos, r.res) IN
  IF r.res = None
  THEN /\ reader' = AtEnd(r.rdr)
       /\ log' = log \o <<read, EvNext(s, OnEnd)>>
  ELSE
    /\ reader' = r.rdr
    /\ IF r.res.val.tag = "Err"
       THEN log' = log \o <<read, EvNext(s, OnRecordError(r.res.val.err))>>
       ELSE
         LET row == r.res.val.val
             p == ParseRow(header_indexer, row)
         IN log' = log \o
              <<read, EvParseRow(s, header_indexer, row, p), EvNext(s, Some(MapErr(p)))>>

\* a variant that reads one record ahead and decodes the second one
next_lookahead(s) ==
  /\ s \in live
  /\ Cardinality(NextCalls) < MaxPulls
  /\ NextWith(s, ReadRecord(source, ReadRecord(source, reader).rdr))
  /\ UNCHANGED <<source, header_indexer, created, dropped, live, nstreams>>

\* <CsvRowReader as Iterator>::next, while fewer than `limit` pulls were made
NextBounded(s, limit) ==
  /\ s \in live
  /\ Cardinality(NextCalls) < limit
  /\ NextWith(s, ReadRecord(source, reader))
  /\ UNCHANGED <<source, header_indexer, created, dropped, live, nstreams>>

\* <CsvRowReader as Iterator>::next
next(s) == NextBounded(s, MaxPulls)

\* the CsvRowReader goes out of scope
drop_row_reader(s) ==
  /\ s \in live
  /\ live' = live \ {s}
  /\ UNCHANGED <<source, reader, header_indexer, created, dropped, nstreams, log>>

\* the CsvReader goes out of scope; a CsvRowReader<'a, ..> borrowing it
\* must be gone by then
drop_reader ==
  /\ Exists
  /\ live = {}
  /\ dropped' = TRUE
  /\ reader' = None
  /\ header_indexer' = None
  /\ UNCHANGED <<source, created, live, nstreams, log>>

Next ==
  \/ new_from_path
  \/ new_from_reader
  \/ with_parser
  \/ \E s \in 1..MaxStreams : next(s)
  \/ \E s \in 1..MaxStreams : drop_row_reader(s)
  \/ drop_reader

Spec == Init /\ [][Next]_vars

\* The same program run on the input of the test module.
InitE2E ==
  /\ source = CSV_FILE
  /\ reader = None
  /\ header_indexer = None
  /\ created = None
  /\ dropped = FALSE
  /\ live = {}
  /\ nstreams = 0
  /\ log = <<>>

next_e2e(s) == NextBounded(s, MaxPullsE2E)

NextE2E ==
  \/ new_from_path
  \/ new_from_reader
  \/ with_parser
  \/ \E s \in 1..MaxStreams : next_e2e(s)
  \/ \E s \in 1..MaxStreams : drop_row_reader(s)
  \/ drop_reader

SpecE2E == InitE2E /\ [][NextE2E]_vars

\* =================================================================
\* Properties
\* =================================================================
\* positions of the history holding a call of the given kind
At(op) == {i \in 1..Len(log) : log[i].op = op}

\* comment lines are skipped exactly when new_from_path built the reader
CommentOn == At("new_from_path") # {}

KeptLine(rec) == ~(CommentOn /\ IsComment(rec))

\* the records of the source as the tokenizer is configured to see them
Lines == SelectSeq(source, KeptLine)
DataRows == IF Lines = <<>> THEN <<>> ELSE Tail(Lines)

\* number of fields of the header line
Width == Len(Lines[1].fields)

WellFormedFor(width, rec) == rec.utf8 /\ Len(rec.fields) = width
WellFormed(rec) == WellFormedFor(Width, rec)

\* the results of all pulls so far, in call order
IsNext(e) == e.op = "next"
Pulls == SelectSeq(log, IsNext)

\* the pulls of the first stream, the one attached to the fresh source
IsNextOfFirst(e) == e.op = "next" /\ e.stream = 1
PullsOfFirst == SelectSeq(log, IsNextOfFirst)

\* the value the header-indexer builder returned
Built == log[CHOOSE i \in At("builder") : TRUE].res

\* what a data row is expected to yield, by the contract of section 4.2,
\* for a header of `width` fields and the header indexer `hi`
ExpectedFor(width, hi, rec) ==
  IF ~WellFormedFor(width, rec)
  THEN Err(CsvRecordError(IF Len(rec.fields) # width
                          THEN "UnequalLengths" ELSE "Utf8"))
  ELSE LET p == ParseRow(hi, TrimAll(rec.fields))
       IN IF p.tag = "Err" THEN Err(RowParserError(p.err)) ELSE p

Expected(rec) == ExpectedFor(Width, Built.val, rec)

Min(a, b) == IF a <= b THEN a ELSE b

IsOkPull(e) == e.res # None /\ e.res.val.tag = "Ok"
IsErrPull(e) == e.res # None /\ e.res.val.tag = "Err"
IsKind(e, kind) == IsErrPull(e) /\ e.res.val.err.kind = kind

\* C1: the header-indexer builder is invoked at most once; exactly once
\* when headers() succeeded; and its invocation precedes the existence of
\* the CsvReader, every with_parser, every record read by a pull and every
\* parse_row call.
C1_BuilderOnceBeforeRows ==
  /\ Cardinality(At("builder")) <= 1
  /\ \A i \in At("headers") :
       /\ log[i].res.tag = "Ok" => At("builder") = {i + 1}
       /\ log[i].res.tag = "Ok" => log[i + 1].arg = log[i].res.val
       /\ log[i].res.tag = "Err" => At("builder") = {}
  /\ At("headers") = {} => At("builder") = {}
  /\ (created # None /\ created.tag = "Ok") => Cardinality(At("builder")) = 1
  /\ \A i \in At("with_parser") \cup At("read") \cup At("parse_row") \cup At("next") :
       \E j \in At("builder") : j < i

C1_Witness ==
  /\ Cardinality(At("builder")) = 1
  /\ At("parse_row") # {}
  /\ Len(Pulls) >= 2

\* C2: a pull that reads a malformed row returns CsvRecordError with the
\* tokenizer's diagnostic, and the stream goes on: every row after a
\* malformed one still gets its result (not "no more results", and not a
\* tokenizer error if that row is well-formed) from the pull that reaches it.
C2_MalformedRowDoesNotTerminate ==
  /\ \A i \in At("read") :
       (log[i].res # None /\ log[i].res.val.tag = "Err") =>
         /\ log[i + 1].op = "next"
         /\ log[i + 1].res = Some(Err(CsvRecordError(log[i].res.val.err)))
  /\ LET pulls == Pulls
         rows == DataRows
         width == Width
         n == Min(Len(pulls), Len(rows))
         bad == {k \in 1..n : ~WellFormedFor(width, rows[k])}
     IN
     /\ \A k \in bad : IsKind(pulls[k], "CsvRecordError")
     /\ \A j \in bad : \A k \in (j + 1)..n :
          /\ pulls[k].res # None
          /\ k \notin bad => ~IsKind(pulls[k], "CsvRecordError")

\* rows [good, malformed, good] pulled three times: [Ok, Err, Ok]
C2_Witness ==
  /\ Len(DataRows) = 3
  /\ WellFormed(DataRows[1]) /\ ~WellFormed(DataRows[2]) /\ WellFormed(DataRows[3])
  /\ Len(Pulls) = 3
  /\ IsOkPull(Pulls[1])
  /\ IsKind(Pulls[2], "CsvRecordError")
  /\ IsOkPull(Pulls[3])

\* C3: when parse_row fails, that pull returns RowParserError carrying
\* exactly the error parse_row returned, and every later pull that reaches
\* a row yields what that row is expected to yield.
C3_DecodeErrorIsReportedAndSkipped ==
  /\ \A i \in At("parse_row") :
       log[i].res.tag = "Err" =>
         /\ log[i + 1].op = "next"
         /\ log[i + 1].stream = log[i].stream
         /\ log[i + 1].res = Some(Err(RowParserError(log[i].res.err)))
  /\ LET pulls == Pulls
         rows == DataRows
         width == Width
         hi == Built.val
         n == Min(Len(pulls), Len(rows))
         failed == {j \in 1..n : IsKind(pulls[j], "RowParserError")}
     IN
     \A j \in failed : \A k \in (j + 1)..n :
       pulls[k].res = Some(ExpectedFor(width, hi, rows[k]))

C3_Witness ==
  /\ Len(Pulls) >= 2
  /\ IsKind(Pulls[1], "RowParserError")
  /\ Pulls[1].res.val.err.err = "ParseIntError"
  /\ IsOkPull(Pulls[2])

\* the stream has reported "no more results"
Exhausted == \E k \in 1..Len(Pulls) : Pulls[k].res = None

\* the decoder fails on no row of the source
DecoderNeverFails ==
  \A k \in 1..Len(DataRows) : Expected(DataRows[k]).tag = "Ok"

OkPulls == {k \in 1..Len(Pulls) : IsOkPull(Pulls[k])}
ErrPulls == {k \in 1..Len(Pulls) : IsErrPull(Pulls[k])}

\* C4: for a source whose n data rows are all well-formed and on which the
\* decoder never fails, a caller that has pulled to exhaustion has received
\* exactly n decoded values and no error.
C4_AllRowsDecoded ==
  (At("builder") # {} /\ Built.tag = "Ok" /\ Exhausted /\ DecoderNeverFails) =>
    /\ Cardinality(OkPulls) = Len(DataRows)
    /\ ErrPulls = {}

C4_Witness ==
  /\ At("builder") # {} /\ Built.tag = "Ok"
  /\ Exhausted
  /\ DecoderNeverFails
  /\ Len(DataRows) = 3
  /\ Cardinality(OkPulls) = 3

\* C5: once a pull on a stream has returned None, every later pull on that
\* stream returns None and parse_row is not invoked for it again.
C5_ExhaustionIsStable ==
  \A i \in At("next") :
    log[i].res = None =>
      \A j \in (i + 1)..Len(log) :
        /\ (log[j].op = "next" /\ log[j].stream = log[i].stream) => log[j].res = None
        /\ (log[j].op = "parse_row") => log[j].stream # log[i].stream

\* two pulls in a row on one stream answered "no more results", after rows
C5_Witness ==
  \E i \in At("next") : \E j \in At("next") :
    /\ i < j
    /\ log[i].stream = log[j].stream
    /\ log[i].res = None /\ log[j].res = None
    /\ At("parse_row") # {}

\* no CsvReader value was produced and nothing was done with one
NoInstance ==
  /\ reader = None
  /\ header_indexer = None
  /\ live = {}
  /\ nstreams = 0
  /\ At("with_parser") \cup At("read") \cup At("parse_row") \cup At("next") = {}

\* C6: when the builder rejects the header row, the constructor returns
\* HeaderIndexerBuilderError carrying exactly the builder's error, and only
\* then; no instance exists, no stream is attached, no data row is read and
\* parse_row is never called.
C6_BuilderErrorFailsConstruction ==
  /\ \A i \in At("builder") :
       log[i].res.tag = "Err" =>
         /\ created = Err(HeaderIndexerBuilderError(log[i].res.err))
         /\ NoInstance
  /\ (created # None /\ created.tag = "Err"
        /\ created.err.kind = "HeaderIndexerBuilderError") =>
       \E i \in At("builder") : log[i].res = Err(created.err.err)

C6_Witness ==
  /\ created = Err(HeaderIndexerBuilderError("DuplicatedX"))
  /\ \E i \in At("builder") : log[i].arg = << <<"X">>, <<"X">>, <<"Y">> >>

\* C7: when the source cannot be opened or headers() fails, the constructor
\* returns CsvError with the tokenizer's diagnostic, the builder is never
\* invoked and no instance exists.
C7_TokenizerErrorFailsConstruction ==
  /\ \A i \in At("headers") :
       log[i].res.tag = "Err" =>
         /\ created = Err(CsvError(log[i].res.err))
         /\ At("builder") = {}
         /\ NoInstance
  /\ (created # None /\ At("headers") = {}) =>
       /\ created = Err(CsvError("Io"))
       /\ At("builder") = {}
       /\ NoInstance

C7_Witness ==
  /\ created = Err(CsvError("Utf8"))
  /\ At("new_from_reader") # {}
  /\ Len(source) > 1

\* number of pulls completed up to position i of the history
PullsUpTo(i) == Cardinality({j \in At("next") : j <= i})

\* C8: on the stream attached to the fresh source the k-th pull yields
\* what the k-th data row (the k-th record after the header) is expected
\* to yield, and "no more results" when there is no k-th row; the row
\* handed to parse_row in the k-th pull is the k-th data row, trimmed.
C8_ResultsInRowOrder ==
  /\ LET pulls == PullsOfFirst
         rows == DataRows
     IN
     /\ \A k \in 1..Min(Len(pulls), Len(rows)) :
          pulls[k].res = Some(Expected(rows[k]))
     /\ \A k \in (Len(rows) + 1)..Len(pulls) : pulls[k].res = None
     /\ \A i \in At("parse_row") :
          LET k == PullsUpTo(i) + 1 IN
          /\ k <= Len(rows)
          /\ log[i].row = TrimAll(rows[k].fields)

\* three rows with three different outcomes, pulled in order on stream 1
C8_Witness ==
  /\ Len(PullsOfFirst) = 3
  /\ IsOkPull(PullsOfFirst[1])
  /\ IsKind(PullsOfFirst[2], "RowParserError")
  /\ IsKind(PullsOfFirst[3], "CsvRecordError")

\* C9: at most one CsvRowReader is alive per CsvReader, a live one implies
\* the CsvReader still exists, and every pull is made by the stream created
\* last: no stream advances the cursor once another has been attached.
C9_OneStreamAtATime ==
  /\ Cardinality(live) <= 1
  /\ live # {} => Exists
  /\ \A i \in At("next") : \A j \in At("with_parser") :
       j < i => log[j].stream <= log[i].stream

C9_Witness ==
  /\ live = {2}
  /\ \E i \in At("next") : \E j \in At("next") :
       i < j /\ log[i].stream = 1 /\ log[j].stream = 2

\* C10: the header indexer of an existing CsvReader is the value the
\* builder returned, whatever with_parser calls and pulls have happened,
\* and every parse_row call received exactly that value.
C10_HeaderIndexerWriteOnce ==
  /\ Exists => (At("builder") # {} /\ header_indexer = Built.val)
  /\ \A i \in At("parse_row") : log[i].header_indexer = Built.val

\* parse_row ran in two streams of one source, after a failed pull
C10_Witness ==
  /\ \E i \in At("parse_row") : \E j \in At("parse_row") :
       i < j /\ log[i].stream = 1 /\ log[j].stream = 2
  /\ ErrPulls # {}
  /\ Exists

\* the values and errors the test module expects, written out
FromRow(mant, scale, y) == Ok([x |-> [mant |-> mant, scale |-> scale], y |-> y])

\* C11: on the input of the test module read through new_from_reader,
\* construction succeeds with X at column 0 and Y at column 2, and the
\* pulls yield, in order, {x: 10.2, y: 11}, a decode error, a decode error,
\* {x: 0.0, y: 9}, {x: 1.0, y: 2} and from then on "no more results".
C11_EndToEnd ==
  At("new_from_reader") # {} =>
    /\ created = Ok("CsvReader")
    /\ Built = Ok([x_idx |-> 0, y_idx |-> 2])
    /\ LET pulls == Pulls IN
       \A k \in 1..Len(pulls) :
         CASE k = 1 -> pulls[k].res = Some(FromRow(102, 1, 11))
           [] k = 2 -> IsKind(pulls[k], "RowParserError")
           [] k = 3 -> IsKind(pulls[k], "RowParserError")
           [] k = 4 -> pulls[k].res = Some(FromRow(0, 0, 9))
           [] k = 5 -> pulls[k].res = Some(FromRow(1, 0, 2))
           [] OTHER -> pulls[k].res = None

C11_Witness ==
  /\ At("new_from_reader") # {}
  /\ Len(Pulls) = 6
  /\ Pulls[5].res = Some(FromRow(1, 0, 2))
  /\ Pulls[6].res = None

\* number of records the tokenizer delivers among the first pos raw ones
\* (comment lines are not delivered when comment skipping is on)
Delivered(pos) ==
  Cardinality({i \in 1..pos : KeptLine(source[i])})

IsRead(e) == e.op = "read"
Reads == SelectSeq(log, IsRead)

\* C12: every pull reads the tokenizer exactly once, starting where the
\* previous read (or the header) stopped; the read passes exactly one
\* delivered record when one remains, whatever the pull then returns, and
\* none at the end of input; so no record is read ahead or read twice.
C12_OneRowPerPull ==
  LET reads == Reads
      pulls == Pulls
  IN
  /\ Len(reads) = Len(pulls)
  /\ \A k \in 1..Len(reads) :
       /\ Delivered(reads[k].from) = Min(k, Len(Lines))
       /\ reads[k].from = IF k = 1 THEN SkipComments(source, 0, CommentOn) + 1
                          ELSE reads[k - 1].to
       /\ (reads[k].res = None) = (pulls[k].res = None)
       /\ reads[k].res # None => Delivered(reads[k].to) = Delivered(reads[k].from) + 1
       /\ reads[k].res = None =>
            /\ Delivered(reads[k].to) = Delivered(reads[k].from)
            /\ Delivered(reads[k].from) = Len(Lines)
  /\ (Exists /\ reads # <<>>) => reader.pos = reads[Len(reads)].to

\* a tokenizer error, a decode error, a value and the end, one pull each,
\* with a comment line skipped on the way
C12_Witness ==
  /\ Len(Pulls) = 3
  /\ IsKind(Pulls[1], "CsvRecordError")
  /\ IsKind(Pulls[2], "RowParserError")
  /\ Pulls[3].res = None
  /\ \E k \in 1..Len(Reads) : Reads[k].to > Reads[k].from + 1

IsParseRow(e) == e.op = "parse_row"
ParseRowCalls == SelectSeq(log, IsParseRow)

\* C13: parse_row is invoked once for each well-formed row a pull reads, in
\* row order and with that row, and not on a pull that meets a malformed
\* row or the end of input: the parse_row calls so far are exactly the
\* well-formed rows among the rows pulled so far.
C13_ParseRowOncePerGoodRow ==
  LET pulls == Pulls
      rows == DataRows
      n == Min(Len(pulls), Len(rows))
      good == {k \in 1..n : WellFormed(rows[k])}
      calls == ParseRowCalls
  IN
  /\ Len(calls) = Cardinality(good)
  /\ \A j \in 1..Len(calls) :
       \E k \in good :
         /\ Cardinality({g \in good : g <= k}) = j
         /\ calls[j].row = TrimAll(rows[k].fields)
  /\ \A i \in At("next") :
       /\ (log[i - 1].op = "parse_row") =
            (log[i].res # None /\ ~IsKind(log[i], "CsvRecordError"))
       /\ log[i - 1].op = "parse_row" =>
            /\ log[i - 2].op = "read"
            /\ log[i - 1].stream = log[i].stream
       /\ log[i - 1].op # "parse_row" => log[i - 1].op = "read"

\* a value, a malformed row, a failed decode and the end: two parse_row calls
C13_Witness ==
  /\ Len(Pulls) = 4
  /\ IsOkPull(Pulls[1])
  /\ IsKind(Pulls[2], "CsvRecordError")
  /\ IsKind(Pulls[3], "RowParserError")
  /\ Pulls[4].res = None
  /\ Len(ParseRowCalls) = 2

\* the pulls made on stream s, in order
PullsOf(s) ==
  LET IsNextOf(e) == e.op = "next" /\ e.stream = s
  IN SelectSeq(log, IsNextOf)

\* number of data rows not yet pulled when stream s was attached
RemainingAtAttach(s) ==
  LET at == CHOOSE i \in At("with_parser") : log[i].stream = s
      before == Cardinality({j \in At("next") : j < at})
      rows == Len(DataRows)
  IN IF before >= rows THEN 0 ELSE rows - before

\* stream s has been told "no more results"
GotNone(s) == \E i \in At("next") : log[i].stream = s /\ log[i].res = None

\* on every stream, exactly the first n pulls return a result and all
\* later ones return None, n being the rows remaining at attachment
FirstNoneAfterRemaining ==
  \A s \in 1..nstreams :
    LET pulls == PullsOf(s)
        n == RemainingAtAttach(s)
    IN \A k \in 1..Len(pulls) : (pulls[k].res = None) = (k > n)

\* C14: with n data rows remaining when a stream is attached, exactly its
\* first n pulls return a result (value or error) and its (n+1)-th pull is
\* the first to return None.  The distance to that pull is a measure that
\* every pull decreases: a live stream not yet told "no more results" has
\* made k <= n pulls and exactly n - k records are left to deliver, so a
\* caller that keeps pulling is told "no more results" after n + 1 pulls.
C14_FiniteStream ==
  /\ FirstNoneAfterRemaining
  /\ \A s \in live :
       ~GotNone(s) =>
         /\ Len(PullsOf(s)) <= RemainingAtAttach(s)
         /\ Len(Lines) - Delivered(reader.pos) =
              RemainingAtAttach(s) - Len(PullsOf(s))

\* a second stream attached with one row left: a result, then None
C14_Witness ==
  /\ nstreams = 2
  /\ Len(DataRows) = 3
  /\ Len(PullsOf(1)) = 2
  /\ Len(PullsOf(2)) = 2
  /\ IsErrPull(PullsOf(2)[1])
  /\ PullsOf(2)[2].res = None

\* what a with_parser call may change: the new stream and its history entry
OnlyBinds ==
  /\ reader' = reader
  /\ header_indexer' = header_indexer
  /\ created' = created
  /\ dropped' = dropped
  /\ source' = source
  /\ live' = {nstreams'}
  /\ log' = Append(log, EvWithParser(nstreams'))

\* C15: with_parser cannot fail (it is possible whenever a CsvReader exists
\* and no stream borrows it), and a with_parser step only binds: it leaves
\* the reader's cursor, the header indexer and the construction result as
\* they were and adds no read, builder or parse_row call; until the first
\* pull the cursor stays right behind the header.
C15_WithParserOnlyBinds ==
  /\ []((Exists /\ live = {} /\ nstreams < MaxStreams) => ENABLED with_parser)
  /\ []((Exists /\ At("next") = {}) => Delivered(reader.pos) = Min(1, Len(Lines)))
  /\ [][nstreams' # nstreams => OnlyBinds]_vars

\* two streams were attached to a source with rows and nothing was pulled
C15_Witness ==
  /\ nstreams = 2
  /\ live = {2}
  /\ At("next") = {}
  /\ Len(DataRows) = 3

\* every result a stream yields before None, pulled from reader state rdr
RECURSIVE AllResults(_, _, _)
AllResults(src, rdr, hi) ==
  LET r == ReadRecord(src, rdr) IN
  IF r.res = None THEN <<>>
  ELSE <<IF r.res.val.tag = "Err"
         THEN OnRecordError(r.res.val.err)
         ELSE Some(MapErr(ParseRow(hi, r.res.val.val)))>>
       \o AllResults(src, r.rdr, hi)

\* a whole run over src of the constructor that sets / does not set the
\* comment marker: the header read, what the builder returned (None if it
\* was not called) and the results of pulling to the end
RunOf(src, comment) ==
  LET h == Headers(src, NewReader(comment)) IN
  IF h.res.tag = "Err"
  THEN [header |-> h.res, built |-> None, results |-> <<>>]
  ELSE LET b == HeaderIndexerNew(h.res.val) IN
       [header |-> h.res,
        built |-> Some(b),
        results |-> IF b.tag = "Ok" THEN AllResults(src, h.rdr, b.val) ELSE <<>>]

CommentLines == {i \in 1..Len(source) : IsComment(source[i])}

StartsWithHash(fields) ==
  fields # <<>> /\ fields[1] # <<>> /\ fields[1][1] = "#"

\* C16: the run in progress is the run of its entry point; over the same
\* source the run of new_from_path has no header, builder argument, decoder
\* row or result for a '#' line (one result per other data line), the run
\* of new_from_reader has a header or a result for every line, '#' lines
\* included; and on a source without '#' lines the two runs are equal.
C16_EntryPointsDifferInComments ==
  At("headers") # {} =>
    LET P == RunOf(source, TRUE)
        R == RunOf(source, FALSE)
        run == IF CommentOn THEN P ELSE R
        pulls == Pulls
        h == CHOOSE i \in At("headers") : TRUE
    IN
    /\ log[h].res = run.header
    /\ (At("builder") # {}) = (run.built # None)
    /\ At("builder") # {} => Built = run.built.val
    /\ \A k \in 1..Len(pulls) :
         pulls[k].res = IF k <= Len(run.results) THEN run.results[k] ELSE None
    /\ CommentLines = {} => P = R
    /\ P.header.tag = "Ok" => ~StartsWithHash(P.header.val)
    /\ (P.built # None /\ P.built.val.tag = "Ok") =>
         Len(P.results) = Len(source) - Cardinality(CommentLines) - 1
    /\ CommentOn =>
         \A i \in At("parse_row") : ~StartsWithHash(log[i].row)
    /\ (R.header.tag = "Ok" /\ source # <<>>) =>
         R.header.val = TrimAll(source[1].fields)
    /\ (R.built # None /\ R.built.val.tag = "Ok") =>
         /\ Len(R.results) = Len(source) - 1
         /\ \A i \in CommentLines :
              R.results[i - 1] = Some(Err(CsvRecordError("UnequalLengths")))

\* new_from_path over header, row, '#' line, row: two results, then None
C16_Witness ==
  /\ CommentOn
  /\ Len(source) = 4
  /\ CommentLines = {3}
  /\ Len(Pulls) = 3
  /\ IsOkPull(Pulls[1])
  /\ IsKind(Pulls[2], "RowParserError")
  /\ Pulls[3].res = None

\* number of pulls made, on any stream, before stream s was attached
PullsBefore(s) ==
  LET at == CHOOSE i \in At("with_parser") : log[i].stream = s
  IN Cardinality({j \in At("next") : j < at})

\* C17: a stream attached after earlier ones were dropped resumes where
\* they stopped: with p pulls made before it, its k-th pull yields what
\* data row p + k is expected to yield (None if there is none); the builder
\* has still been invoked once; and over all streams the reads that
\* deliver a record end at strictly increasing positions, so no data row
\* is delivered twice.
C17_LaterStreamsResume ==
  /\ \A s \in 2..nstreams :
       LET pulls == PullsOf(s)
           before == PullsBefore(s)
           rows == DataRows
       IN \A k \in 1..Len(pulls) :
            pulls[k].res = IF before + k <= Len(rows)
                           THEN Some(Expected(rows[before + k]))
                           ELSE None
  /\ nstreams >= 2 => Cardinality(At("builder")) = 1
  /\ LET reads == Reads IN
     \A i \in 1..Len(reads) : \A j \in (i + 1)..Len(reads) :
       (reads[i].res # None /\ reads[j].res # None) => reads[i].to < reads[j].to

\* the first stream was dropped after one row, the second delivers rows 2, 3
C17_Witness ==
  /\ nstreams = 2
  /\ Len(DataRows) = 3
  /\ Len(PullsOf(1)) = 1
  /\ IsKind(PullsOf(1)[1], "RowParserError")
  /\ Len(PullsOf(2)) = 2
  /\ IsOkPull(PullsOf(2)[1])
  /\ IsKind(PullsOf(2)[2], "CsvRecordError")

====
